---- MODULE Spec2Model ----
(***************************************************************************)
(* py-ninja, ninja/devices.py: one device entity (Device, RGBLED or Relay) *)
(* driven by its caller through heartbeat, asDict, the RGB LED operations, *)
(* the Relay accessors and the Relay command-then-verify loop.             *)
(*                                                                         *)
(* Python's None is the empty tuple <<>> and a value v that may be None is *)
(* <<v>>.  A dict is a function whose DOMAIN is its set of keys.  A raw    *)
(* string is a tuple of one-character strings.                             *)
(***************************************************************************)
EXTENDS Integers, Sequences, FiniteSets, TLC

VARIABLES
    cls,                    \* the class of the entity (TYPE_MAP value)
    guid, type, name, is_sensor, is_actuator,
    data, last_heartbeat, last_read, last_data,
    callbacks,              \* self._callbacks: event name -> subscribed callbacks
    last_color,             \* RGBLED._last_color
    state,                  \* Relay.state: <<TRUE>>, <<FALSE>> or None
    now,                    \* the last reading of the local clock
    pc,                     \* "idle", or "verify" inside Relay._change_state
    logical_state,          \* _change_state: its argument
    state_change_confirmed, \* _change_state: local
    count,                  \* _change_state: local
    new_info,               \* _change_state: local, <<>> while unbound
    gets,                   \* directory fetches made by the current call
    firstMatch,             \* index of the first matching fetch of the call, 0 if none
    puts,                   \* PUT payloads sent by the last operation
    fired,                  \* _fire calls made by the last operation
    op,                     \* the operation step just taken, with its inputs
    ret,                    \* how the last operation ended
    calls,                  \* transport calls made by the last step, with their key
    invoked,                \* callbacks run by the last operation, in order
    lastNonBlack,           \* RGBLED: the last colour other than black the device had
    other,                  \* a second entity on the same transport
    inflight                \* heartbeat responses on their way, per requesting entity

vars == <<cls, guid, type, name, is_sensor, is_actuator, data, last_heartbeat,
          last_read, last_data, callbacks, last_color, state, now, pc,
          logical_state, state_change_confirmed, count, new_info, gets,
          firstMatch, puts, fired, op, ret, calls, invoked, lastNonBlack,
          other, inflight>>

entity == <<guid, type, name, is_sensor, is_actuator, data, last_heartbeat,
            last_read, last_data, callbacks, last_color, state>>

loopvars == <<logical_state, state_change_confirmed, count, new_info, gets, firstMatch>>

peer == <<other, inflight>>

-----------------------------------------------------------------------------
(* Bounds *)
MaxData   == 1      \* heartbeat values are 0..MaxData
MaxClock  == 1      \* the local clock reads 0..MaxClock

None == <<>>
Some(v) == <<v>>
EmptyDict == [k \in {} |-> k]

Get(d, k, default) == IF k \in DOMAIN d THEN d[k] ELSE default

HEARTBEAT == "heartbeat"
CHANGE == "change"
EventNames == {HEARTBEAT, CHANGE}

-----------------------------------------------------------------------------
(* Python's int(str), str(int) and int(bool) on the values the relay uses *)
Digits == <<"0", "1", "2", "3", "4", "5", "6", "7", "8", "9">>
\* the raw state strings the hub reports in a description
RawStrings == {<<>>, <<"0">>, <<"1">>, <<"0", "1">>, <<"1", "0">>, <<"x">>}

IsDigit(c) == \E i \in 1..10 : Digits[i] = c
DigitValue(c) == (CHOOSE i \in 1..10 : Digits[i] = c) - 1

\* int(s) raises ValueError unless s is a non-empty run of decimal digits
int_raises(s) == Len(s) = 0 \/ \E i \in 1..Len(s) : ~IsDigit(s[i])

RECURSIVE int_str(_)
int_str(s) ==
    IF Len(s) = 0 THEN 0
    ELSE 10 * int_str(SubSeq(s, 1, Len(s) - 1)) + DigitValue(s[Len(s)])

int_bool(b) == IF b THEN 1 ELSE 0

\* the flag itself formatted, not its integer value
str_int_flag(n) == IF n = 1 THEN <<"T", "r", "u", "e">> ELSE <<"F", "a", "l", "s", "e">>

RECURSIVE str_int(_)
str_int(n) ==
    IF n < 10 THEN <<Digits[n + 1]>>
    ELSE str_int(n \div 10) \o <<Digits[(n % 10) + 1]>>

-----------------------------------------------------------------------------
(* Device descriptions handed to the constructor *)
LastDatas == {EmptyDict} \cup {[DA |-> r] : r \in RawStrings}

TYPE_MAP == [humidity |-> "HumiditySensor", rgbled |-> "RGBLED", relay |-> "Relay"]
Classes == {TYPE_MAP[t] : t \in DOMAIN TYPE_MAP}
TagOf(c) == CHOOSE t \in DOMAIN TYPE_MAP : TYPE_MAP[t] = c

FullInfo(c, ld) ==
    [device_type |-> TagOf(c), shortName |-> "Lamp",
     is_sensor |-> IF c = "HumiditySensor" THEN 1 ELSE 0,
     is_actuator |-> IF c = "HumiditySensor" THEN 0 ELSE 1,
     last_data |-> ld]
\* the descriptions an entity of class c is built from; info defaults to {}
InfosOf(c) ==
    {EmptyDict} \cup {FullInfo(c, ld) : ld \in IF c = "Relay" THEN LastDatas ELSE {EmptyDict}}

(* Device.__init__ *)
DeviceInit(info) ==
    [callbacks      |-> [e \in EventNames |-> <<>>],
     type           |-> IF "device_type" \in DOMAIN info THEN Some(info.device_type) ELSE None,
     name           |-> IF "shortName" \in DOMAIN info THEN Some(info.shortName) ELSE None,
     is_sensor      |-> "is_sensor" \in DOMAIN info /\ info.is_sensor = 1,
     is_actuator    |-> "is_actuator" \in DOMAIN info /\ info.is_actuator = 1,
     data           |-> None,
     last_heartbeat |-> None,
     last_read      |-> None,
     last_data      |-> Get(info, "last_data", EmptyDict)]

\* the final else branch falling back to off instead of unknown
RelayStateNoUnknown(ld) ==
    LET last_known_state == Get(ld, "DA", <<"0">>)
    IN  IF last_known_state = <<"1">> THEN Some(TRUE) ELSE Some(FALSE)

(* Relay.__init__: the tri-state derived from last_data *)
RelayState(ld) ==
    LET last_known_state == Get(ld, "DA", <<"0">>)
    IN  IF last_known_state = <<"0">> THEN Some(FALSE)
        ELSE IF last_known_state = <<"1">> THEN Some(TRUE)
        ELSE None

-----------------------------------------------------------------------------
(* Device.heartbeat *)
DataValues == 0..MaxData
TsValues == {999, 1000}          \* hub timestamps, epoch milliseconds
FullPayloads == {[DA |-> v, timestamp |-> t] : v \in DataValues, t \in TsValues}
Payloads == {EmptyDict, [DA |-> 0], [timestamp |-> 1000]} \cup FullPayloads
Responses == {[id |-> 0, data |-> p] : p \in Payloads}
             \cup {[id |-> 1], [id |-> 1, data |-> [DA |-> 0, timestamp |-> 1000]]}

\* the response carries everything the transport's contract promises
WellFormed(resp) == "data" \in DOMAIN resp /\ resp.data \in FullPayloads

\* the status tested for truth instead of for 0
PollSucceededTruthy(resp) == resp.id # 0

PollSucceeded(resp) == resp.id = 0

_parse(raw) == raw

\* TemperatureSensor._parse: Temperature(c=data)
TemperatureSensor_parse(raw) == [c |-> raw]

\* self._parse, by the entity's class
self_parse(raw) ==
    IF cls = "TemperatureSensor" THEN TemperatureSensor_parse(raw) ELSE _parse(raw)

utcfromtimestamp(ms) == ms \div 1000

\* the comparison made against the field after it was overwritten
DataChangedStale(new, previous_data) == new # new

DataChanged(new, previous_data) == new # previous_data

\* the silent flag ignored
FireEventsLoud(silent, new, previous_data) ==
    <<[event |-> HEARTBEAT, args |-> <<new>>]>>
    \o (IF DataChanged(new, previous_data)
        THEN <<[event |-> CHANGE, args |-> <<new, previous_data>>]>>
        ELSE <<>>)

\* CHANGE fired ahead of HEARTBEAT
FireEventsChangeFirst(silent, new, previous_data) ==
    IF silent THEN <<>>
    ELSE (IF DataChanged(new, previous_data)
          THEN <<[event |-> CHANGE, args |-> <<new, previous_data>>]>>
          ELSE <<>>)
         \o <<[event |-> HEARTBEAT, args |-> <<new>>]>>

FireEvents(silent, new, previous_data) ==
    IF silent THEN <<>>
    ELSE <<[event |-> HEARTBEAT, args |-> <<new>>]>>
         \o (IF DataChanged(new, previous_data)
             THEN <<[event |-> CHANGE, args |-> <<new, previous_data>>]>>
             ELSE <<>>)

\* the fields, events and outcome of heartbeat(silent) on response resp, the
\* clock reading utcnow; a KeyError leaves the assignments made before it
heartbeat(d, lh, lr, resp, silent, utcnow) ==
    IF PollSucceeded(resp) THEN
        LET previous_data == d
            lh1 == Some(utcnow)
        IN  IF ~("data" \in DOMAIN resp /\ "DA" \in DOMAIN resp.data) THEN
                [data |-> d, last_heartbeat |-> lh1, last_read |-> lr,
                 fired |-> <<>>, seen |-> <<d, lh1, lr>>,
                 raised |-> Some("KeyError"), value |-> None]
            ELSE
                LET d1 == Some(self_parse(resp.data.DA))
                IN  IF "timestamp" \notin DOMAIN resp.data THEN
                        [data |-> d1, last_heartbeat |-> lh1, last_read |-> lr,
                         fired |-> <<>>, seen |-> <<d1, lh1, lr>>,
                         raised |-> Some("KeyError"), value |-> None]
                    ELSE
                        LET lr1 == Some(utcfromtimestamp(resp.data.timestamp))
                        IN  [data |-> d1, last_heartbeat |-> lh1, last_read |-> lr1,
                             fired |-> FireEvents(silent, d1, previous_data),
                             seen |-> <<d1, lh1, lr1>>,
                             raised |-> None, value |-> <<lr1, d1>>]
    ELSE
        [data |-> d, last_heartbeat |-> lh, last_read |-> lr,
         fired |-> <<>>, seen |-> <<d, lh, lr>>,
         raised |-> None, value |-> <<lr, d>>]

\* Events._fire: every callback subscribed to the event runs, in subscription
\* order, synchronously; each sees the entity's fields as they are then
RECURSIVE _fire(_, _, _)
_fire(log, cbs, seen) ==
    IF log = <<>> THEN <<>>
    ELSE [i \in 1..Len(cbs[Head(log).event]) |->
             [event |-> Head(log).event, callback |-> cbs[Head(log).event][i],
              args |-> Head(log).args, seen |-> seen]]
         \o _fire(Tail(log), cbs, seen)

\* the key heartbeat hands to api.getDeviceHeartbeat
\* every request made for the first entity's key
RequestKeyFirst(g) == "g1"

RequestKey(g) == g

\* the guid read from somewhere else than the instance
InitGuidOther(g) == "g2"

\* the guid __init__ is handed by _change_state and stores
InitGuid(g) == g

\* the logical state following the value a poll stored
StateSyncedFromData(st, d) == IF d = None THEN st ELSE Some(d[1] = 1)

\* heartbeat assigns data, last_heartbeat and last_read and nothing else:
\* Relay.state is as it was, whatever value d the poll stored
StateAfterHeartbeat(st, d) == st

-----------------------------------------------------------------------------
(* Device.asDict *)
isoformat(t) == [iso |-> t]

_dataToJSON(d) == d

\* TemperatureSensor._dataToJSON: float(self.data); float(None) is a TypeError
TemperatureSensor_dataToJSON_raises(d) == d = None
TemperatureSensor_dataToJSON(d) == [float |-> d[1].c]

\* self._dataToJSON, by the entity's class
self_dataToJSON_raises(d) ==
    cls = "TemperatureSensor" /\ TemperatureSensor_dataToJSON_raises(d)
self_dataToJSON(d) ==
    IF cls = "TemperatureSensor" THEN TemperatureSensor_dataToJSON(d) ELSE _dataToJSON(d)

asDict(for_json) ==
    LET device_dict == [guid |-> guid, type |-> type, name |-> name,
                        is_sensor |-> is_sensor, is_actuator |-> is_actuator,
                        data |-> data, last_heartbeat |-> last_heartbeat,
                        last_read |-> last_read, last_data |-> last_data]
    IN  IF for_json THEN
            [device_dict EXCEPT
                !.data = self_dataToJSON(data),
                !.last_read = IF last_read # None THEN Some(isoformat(last_read[1])) ELSE None,
                !.last_heartbeat = IF last_heartbeat # None
                                   THEN Some(isoformat(last_heartbeat[1])) ELSE None]
        ELSE device_dict

-----------------------------------------------------------------------------
(* RGBLED *)
BLACK == 0
WHITE == 1
\* colours are the data values; the hex encoding is kept uninterpreted
Color_hex(c) == [hex |-> c]
\* `not self._last_color`: of the values _last_color takes only None is false
Falsy(x) == x = None
\* the last colour other than black among those seen so far and colour c
Seen(last, c) == IF c # None /\ c # Some(BLACK) THEN c ELSE last

-----------------------------------------------------------------------------
(* Relay accessors *)
\* the assertion never failing
unknown_state_check_off(st) == FALSE

unknown_state_check(st) == st = None       \* TRUE when the Warning is raised

is_turned_on(st) ==
    IF unknown_state_check(st)
    THEN [raised |-> Some("Warning"), value |-> None]
    ELSE [raised |-> None, value |-> Some(st = Some(TRUE))]

is_turned_off(st) ==
    IF unknown_state_check(st)
    THEN [raised |-> Some("Warning"), value |-> None]
    ELSE [raised |-> None, value |-> Some(st = Some(FALSE))]

(* Relay._change_state *)
MaxAttempts == 10

LoopContinues(confirmed, n) == confirmed = FALSE /\ n < MaxAttempts

\* int(new_info['last_data']['DA']) is int(logical_state); `is` on the
\* interpreter's small integers is equality
Confirms(raw, ls) == int_str(raw) = int_bool(ls)

Normal == [raised |-> None, value |-> None]

-----------------------------------------------------------------------------
\* the state after c(api, "g1", info)
Constructed(c, info) ==
        LET i == DeviceInit(info)
        IN  /\ cls = c
            /\ guid = "g1"
            /\ type = i.type
            /\ name = i.name
            /\ is_sensor = i.is_sensor
            /\ is_actuator = i.is_actuator
            /\ data = i.data
            /\ last_heartbeat = i.last_heartbeat
            /\ last_read = i.last_read
            /\ last_data = i.last_data
            /\ callbacks = i.callbacks
            /\ last_color = IF c = "RGBLED" THEN Some(BLACK) ELSE None
            /\ state = IF c = "Relay" THEN RelayState(i.last_data) ELSE Some(FALSE)
            /\ now = 0
            /\ pc = "idle"
            /\ logical_state = FALSE
            /\ state_change_confirmed = FALSE
            /\ count = 0
            /\ new_info = None
            /\ gets = 0
            /\ firstMatch = 0
            /\ puts = <<>>
            /\ fired = <<>>
            /\ op = [name |-> "__init__", info |-> info]
            /\ ret = Normal
            /\ calls = <<>>
            /\ invoked = <<>>
            /\ lastNonBlack = None

\* one entity, no other entity on the transport
Alone == other = None /\ inflight = None

Init == \E c \in Classes : \E info \in InfosOf(c) : Constructed(c, info) /\ Alone

Heartbeat(resp, silent, utcnow) ==
    /\ pc = "idle"
    /\ PollSucceeded(resp) \/ utcnow = now
    /\ LET r == heartbeat(data, last_heartbeat, last_read, resp, silent, utcnow)
       IN  /\ data' = r.data
           /\ last_heartbeat' = r.last_heartbeat
           /\ last_read' = r.last_read
           /\ fired' = r.fired
           /\ invoked' = _fire(r.fired, callbacks, r.seen)
           /\ state' = StateAfterHeartbeat(state, r.data)
           /\ ret' = [raised |-> r.raised, value |-> r.value]
    /\ now' = utcnow
    /\ puts' = <<>>
    /\ op' = [name |-> "heartbeat", resp |-> resp, silent |-> silent, utcnow |-> utcnow]
    /\ calls' = <<[fn |-> "getDeviceHeartbeat", guid |-> RequestKey(guid)]>>
    /\ lastNonBlack' = IF cls = "RGBLED" THEN Seen(lastNonBlack, data') ELSE lastNonBlack
    /\ UNCHANGED <<cls, guid, type, name, is_sensor, is_actuator, last_data,
                   callbacks, last_color, pc, loopvars, peer>>

AsDict(for_json) ==
    /\ pc = "idle"
    /\ ret' = IF for_json /\ self_dataToJSON_raises(data)
              THEN [raised |-> Some("TypeError"), value |-> None]
              ELSE [raised |-> None, value |-> asDict(for_json)]
    /\ op' = [name |-> "asDict", for_json |-> for_json]
    /\ puts' = <<>>
    /\ fired' = <<>>
    /\ calls' = <<>>
    /\ invoked' = <<>>
    /\ UNCHANGED <<cls, entity, now, pc, loopvars, lastNonBlack, peer>>

On(event) ==
    /\ pc = "idle"
    /\ callbacks[event] = <<>>
    /\ callbacks' = [callbacks EXCEPT ![event] = Append(@, "cb")]
    /\ op' = [name |-> "on", event |-> event]
    /\ ret' = Normal
    /\ puts' = <<>>
    /\ fired' = <<>>
    /\ calls' = <<>>
    /\ invoked' = <<>>
    /\ UNCHANGED <<cls, guid, type, name, is_sensor, is_actuator, data, last_heartbeat,
                   last_read, last_data, last_color, state, now, pc, loopvars,
                   lastNonBlack, peer>>

\* setWebhookURL / getWebhookURL / clearWebhookURL: passed on to the transport
WebhookCalls == {"setDeviceWebhookURL", "getDeviceWebhookURL", "clearDeviceWebhookURL"}

Webhook(fn) ==
    /\ pc = "idle"
    /\ calls' = <<[fn |-> fn, guid |-> guid]>>
    /\ op' = [name |-> "webhook", fn |-> fn]
    /\ ret' = Normal
    /\ puts' = <<>>
    /\ fired' = <<>>
    /\ invoked' = <<>>
    /\ UNCHANGED <<cls, entity, now, pc, loopvars, lastNonBlack, peer>>

\* RGBLED.setColor(color) reached with _last_color already set to lc
setColorBody(opname, lc, color) ==
    /\ last_color' = IF Falsy(lc) THEN Some(WHITE) ELSE lc
    /\ puts' = <<[guid |-> guid, DA |-> Color_hex(color)]>>
    /\ op' = [name |-> opname, color |-> color]
    /\ ret' = Normal
    /\ fired' = <<>>
    /\ calls' = <<[fn |-> "_makePUTRequest", guid |-> guid]>>
    /\ invoked' = <<>>
    /\ lastNonBlack' = Seen(lastNonBlack, color)
    /\ UNCHANGED <<cls, guid, type, name, is_sensor, is_actuator, data, last_heartbeat,
                   last_read, last_data, callbacks, state, now, pc, loopvars, peer>>

SetColor(color) ==
    /\ pc = "idle" /\ cls = "RGBLED"
    /\ setColorBody("setColor", last_color, Some(color))

TurnOn ==
    /\ pc = "idle" /\ cls = "RGBLED"
    /\ setColorBody("turnOn", last_color, last_color)

TurnOff ==
    /\ pc = "idle" /\ cls = "RGBLED"
    /\ setColorBody("turnOff", data, Some(BLACK))

IsTurnedOn ==
    /\ pc = "idle" /\ cls = "Relay"
    /\ ret' = is_turned_on(state)
    /\ op' = [name |-> "is_turned_on"]
    /\ puts' = <<>>
    /\ fired' = <<>>
    /\ calls' = <<>>
    /\ invoked' = <<>>
    /\ UNCHANGED <<cls, entity, now, pc, loopvars, lastNonBlack, peer>>

IsTurnedOff ==
    /\ pc = "idle" /\ cls = "Relay"
    /\ ret' = is_turned_off(state)
    /\ op' = [name |-> "is_turned_off"]
    /\ puts' = <<>>
    /\ fired' = <<>>
    /\ calls' = <<>>
    /\ invoked' = <<>>
    /\ UNCHANGED <<cls, entity, now, pc, loopvars, lastNonBlack, peer>>

\* turn_on() / turn_off(): the PUT, then the loop's locals
ChangeStateCall(ls) ==
    /\ pc = "idle" /\ cls = "Relay"
    /\ puts' = <<[guid |-> guid, DA |-> str_int(int_bool(ls))]>>
    /\ logical_state' = ls
    /\ state_change_confirmed' = FALSE
    /\ count' = 0
    /\ new_info' = None
    /\ gets' = 0
    /\ firstMatch' = 0
    /\ pc' = "verify"
    /\ op' = [name |-> IF ls THEN "turn_on" ELSE "turn_off"]
    /\ ret' = Normal
    /\ fired' = <<>>
    /\ calls' = <<[fn |-> "_makePUTRequest", guid |-> guid]>>
    /\ invoked' = <<>>
    /\ UNCHANGED <<cls, entity, now, lastNonBlack, peer>>

\* how a call of _change_state ended, with the locals it ended with
Ended(n, k, confirmed, info) ==
    [name |-> "_change_state", logical_state |-> logical_state, gets |-> n,
     firstMatch |-> k, confirmed |-> confirmed, new_info |-> info]

LeaveCall ==
    /\ pc' = "idle"
    /\ logical_state' = FALSE
    /\ state_change_confirmed' = FALSE
    /\ count' = 0
    /\ new_info' = None
    /\ gets' = 0
    /\ firstMatch' = 0

\* one iteration of the while loop: the directory reports info for this guid
VerifyFetch(info) ==
    /\ pc = "verify"
    /\ LoopContinues(state_change_confirmed, count)
    /\ IF "last_data" \notin DOMAIN info \/ "DA" \notin DOMAIN info.last_data THEN
            /\ ret' = [raised |-> Some("KeyError"), value |-> None]
            /\ op' = Ended(gets + 1, firstMatch, state_change_confirmed, info)
            /\ LeaveCall
       ELSE IF int_raises(info.last_data.DA) THEN
            /\ ret' = [raised |-> Some("ValueError"), value |-> None]
            /\ op' = Ended(gets + 1, firstMatch, state_change_confirmed, info)
            /\ LeaveCall
       ELSE
            /\ gets' = gets + 1
            /\ new_info' = Some(info)
            /\ op' = [name |-> "fetch", info |-> info]
            /\ state_change_confirmed' = Confirms(info.last_data.DA, logical_state)
            /\ count' = count + 1
            /\ firstMatch' = IF firstMatch = 0
                                /\ int_str(info.last_data.DA) = int_bool(logical_state)
                             THEN gets + 1 ELSE firstMatch
            /\ UNCHANGED <<ret, pc, logical_state>>
    /\ calls' = <<[fn |-> "_makeGETRequest", guid |-> guid]>>
    /\ UNCHANGED <<cls, entity, now, puts, fired, invoked, lastNonBlack, peer>>

\* the loop has ended: self.__init__(self.api, self.guid, info=new_info)
ChangeStateReturn ==
    /\ pc = "verify"
    /\ ~LoopContinues(state_change_confirmed, count)
    /\ LET i == DeviceInit(new_info[1])
       IN  /\ type' = i.type
           /\ name' = i.name
           /\ is_sensor' = i.is_sensor
           /\ is_actuator' = i.is_actuator
           /\ data' = i.data
           /\ last_heartbeat' = i.last_heartbeat
           /\ last_read' = i.last_read
           /\ last_data' = i.last_data
           /\ callbacks' = i.callbacks
           /\ state' = RelayState(i.last_data)
    /\ op' = Ended(gets, firstMatch, state_change_confirmed, new_info[1])
    /\ ret' = Normal
    /\ guid' = InitGuid(guid)
    /\ calls' = <<>>
    /\ LeaveCall
    /\ UNCHANGED <<cls, last_color, now, puts, fired, invoked, lastNonBlack, peer>>

Next ==
    \/ \E resp \in Responses, silent \in BOOLEAN, utcnow \in now..MaxClock :
            Heartbeat(resp, silent, utcnow)
    \/ \E for_json \in BOOLEAN : AsDict(for_json)
    \/ \E event \in EventNames : On(event)
    \/ \E fn \in WebhookCalls : Webhook(fn)
    \/ \E color \in DataValues : SetColor(color)
    \/ TurnOn
    \/ TurnOff
    \/ IsTurnedOn
    \/ IsTurnedOff
    \/ \E ls \in BOOLEAN : ChangeStateCall(ls)
    \/ \E info \in InfosOf("Relay") : VerifyFetch(info)
    \/ ChangeStateReturn

Spec == Init /\ [][Next]_vars

-----------------------------------------------------------------------------
(* Every variant of the registry, polled and projected with asDict *)
Registry ==
    [button |-> "Button", rgbled |-> "RGBLED", orientation |-> "Accelerometer",
     temperature |-> "TemperatureSensor", humidity |-> "HumiditySensor",
     light |-> "LightSensor", relay |-> "Relay"]

InitDict ==
    \E t \in DOMAIN Registry :
        \E info \in {EmptyDict, [device_type |-> t, shortName |-> "Lamp", is_sensor |-> 1]} :
            Constructed(Registry[t], info) /\ Alone

NextDict ==
    \/ \E resp \in Responses, silent \in BOOLEAN, utcnow \in now..MaxClock :
            Heartbeat(resp, silent, utcnow)
    \/ \E for_json \in BOOLEAN : AsDict(for_json)

SpecDict == InitDict /\ [][NextDict]_vars

-----------------------------------------------------------------------------
(* Two entities of one class, guids "g1" and "g2", on one transport; each is
   polled from its own thread, so a request of one may be in flight while the
   other polls.  The entity "g1" is held in the variables, the entity "g2" in
   the record other; inflight holds each thread's pending request. *)
Threads == {"self", "other"}

GuidOf(who) == IF who = "self" THEN guid ELSE other.guid

\* the second entity after c(api, "g2", info)
OtherInit(c, info) ==
    LET i == DeviceInit(info)
    IN  [guid |-> "g2", data |-> i.data, last_heartbeat |-> i.last_heartbeat,
         last_read |-> i.last_read, callbacks |-> i.callbacks,
         state |-> IF c = "Relay" THEN RelayState(i.last_data) ELSE Some(FALSE)]

\* the hub's timestamps of each device's readings, epoch milliseconds
HubTs == [g1 |-> 1000, g2 |-> 2000]

\* what the hub answers to a heartbeat request for key k: a reading of the
\* device k, or a failure
HubAnswers(k) ==
    {[id |-> 0, data |-> [DA |-> [dev |-> k, v |-> v], timestamp |-> HubTs[k]]] :
        v \in DataValues} \cup {[id |-> 1]}

InitTwo ==
    \E c \in Classes :
        /\ Constructed(c, EmptyDict)
        /\ other = OtherInit(c, EmptyDict)
        /\ inflight = [w \in Threads |-> None]

\* heartbeat, line 52: the thread calls api.getDeviceHeartbeat(self.guid)
SendPoll(who) ==
    /\ inflight[who] = None
    /\ inflight' = [inflight EXCEPT ![who] = Some([for |-> RequestKey(GuidOf(who))])]
    /\ calls' = <<[fn |-> "getDeviceHeartbeat", guid |-> RequestKey(GuidOf(who))]>>
    /\ op' = [name |-> "send", who |-> who]
    /\ ret' = Normal
    /\ puts' = <<>>
    /\ fired' = <<>>
    /\ invoked' = <<>>
    /\ UNCHANGED <<cls, entity, now, pc, loopvars, lastNonBlack, other>>

\* heartbeat, lines 53-66: the call returns and the thread's entity is updated
ReceivePoll(who, resp, silent) ==
    /\ inflight[who] # None
    /\ resp \in HubAnswers(inflight[who][1].for)
    /\ inflight' = [inflight EXCEPT ![who] = None]
    /\ op' = [name |-> "receive", who |-> who]
    /\ puts' = <<>>
    /\ calls' = <<>>
    /\ IF who = "self"
       THEN LET r == heartbeat(data, last_heartbeat, last_read, resp, silent, now)
            IN  /\ data' = r.data
                /\ last_heartbeat' = r.last_heartbeat
                /\ last_read' = r.last_read
                /\ fired' = r.fired
                /\ invoked' = _fire(r.fired, callbacks, r.seen)
                /\ state' = StateAfterHeartbeat(state, r.data)
                /\ ret' = [raised |-> r.raised, value |-> r.value]
                /\ UNCHANGED other
       ELSE LET r == heartbeat(other.data, other.last_heartbeat, other.last_read,
                               resp, silent, now)
            IN  /\ other' = [other EXCEPT !.data = r.data,
                                          !.last_heartbeat = r.last_heartbeat,
                                          !.last_read = r.last_read,
                                          !.state = StateAfterHeartbeat(@, r.data)]
                /\ fired' = r.fired
                /\ invoked' = _fire(r.fired, other.callbacks, r.seen)
                /\ ret' = [raised |-> r.raised, value |-> r.value]
                /\ UNCHANGED <<data, last_heartbeat, last_read, state>>
    /\ UNCHANGED <<cls, guid, type, name, is_sensor, is_actuator, last_data,
                   callbacks, last_color, now, pc, loopvars, lastNonBlack>>

\* on(event, callback) of either entity
Subscribe(who, event) ==
    /\ IF who = "self"
       THEN /\ callbacks[event] = <<>>
            /\ callbacks' = [callbacks EXCEPT ![event] = Append(@, "cb")]
            /\ UNCHANGED other
       ELSE /\ other.callbacks[event] = <<>>
            /\ other' = [other EXCEPT !.callbacks[event] = Append(@, "cb")]
            /\ UNCHANGED callbacks
    /\ op' = [name |-> "on", who |-> who]
    /\ ret' = Normal
    /\ puts' = <<>>
    /\ fired' = <<>>
    /\ calls' = <<>>
    /\ invoked' = <<>>
    /\ UNCHANGED <<cls, guid, type, name, is_sensor, is_actuator, data, last_heartbeat,
                   last_read, last_data, last_color, state, now, pc, loopvars,
                   lastNonBlack, inflight>>

NextTwo ==
    \/ \E who \in Threads : SendPoll(who)
    \/ \E who \in Threads, silent \in BOOLEAN :
            \E resp \in HubAnswers("g1") \cup HubAnswers("g2") :
                ReceivePoll(who, resp, silent)
    \/ \E who \in Threads, event \in EventNames : Subscribe(who, event)

SpecTwo == InitTwo /\ [][NextTwo]_vars

-----------------------------------------------------------------------------
(* pulse(period): while True: self.heartbeat(); time.sleep(period).
   pc is "pulse_poll" before the poll of an iteration and "pulse_sleep" before
   its sleep; an exception raised by the poll leaves the loop and the call. *)
InPulse == pc \in {"pulse_poll", "pulse_sleep"}

\* where pulse goes after heartbeat() came back with outcome raised
AfterPulsePoll(raised) == IF raised = None THEN "pulse_sleep" ELSE "idle"

InitPulse == \E c \in Classes : Constructed(c, EmptyDict) /\ Alone

PulseCall ==
    /\ pc = "idle"
    /\ pc' = "pulse_poll"
    /\ op' = [name |-> "pulse"]
    /\ ret' = Normal
    /\ puts' = <<>>
    /\ fired' = <<>>
    /\ calls' = <<>>
    /\ invoked' = <<>>
    /\ UNCHANGED <<cls, entity, now, loopvars, lastNonBlack, peer>>

PulsePoll(resp, utcnow) ==
    /\ pc = "pulse_poll"
    /\ PollSucceeded(resp) \/ utcnow = now
    /\ LET r == heartbeat(data, last_heartbeat, last_read, resp, FALSE, utcnow)
       IN  /\ data' = r.data
           /\ last_heartbeat' = r.last_heartbeat
           /\ last_read' = r.last_read
           /\ fired' = r.fired
           /\ invoked' = _fire(r.fired, callbacks, r.seen)
           /\ state' = StateAfterHeartbeat(state, r.data)
           /\ ret' = [raised |-> r.raised, value |-> r.value]
           /\ pc' = AfterPulsePoll(r.raised)
    /\ now' = utcnow
    /\ puts' = <<>>
    /\ op' = [name |-> "heartbeat", resp |-> resp, silent |-> FALSE, utcnow |-> utcnow]
    /\ calls' = <<[fn |-> "getDeviceHeartbeat", guid |-> RequestKey(guid)]>>
    /\ UNCHANGED <<cls, guid, type, name, is_sensor, is_actuator, last_data,
                   callbacks, last_color, loopvars, lastNonBlack, peer>>

PulseSleep ==
    /\ pc = "pulse_sleep"
    /\ pc' = "pulse_poll"
    /\ op' = [name |-> "sleep"]
    /\ ret' = Normal
    /\ puts' = <<>>
    /\ fired' = <<>>
    /\ calls' = <<>>
    /\ invoked' = <<>>
    /\ UNCHANGED <<cls, entity, now, loopvars, lastNonBlack, peer>>

PulsePolls == \E resp \in Responses, utcnow \in now..MaxClock : PulsePoll(resp, utcnow)

NextPulse ==
    \/ \E event \in EventNames : On(event)
    \/ PulseCall
    \/ PulsePolls
    \/ PulseSleep

\* the thread running pulse is scheduled, the transport answers, sleep ends
SpecPulse == InitPulse /\ [][NextPulse]_vars /\ WF_vars(PulsePolls) /\ WF_vars(PulseSleep)

-----------------------------------------------------------------------------
(* Properties *)
IsPoll(o) == o.name = "heartbeat"
SuccessPoll(o) == IsPoll(o) /\ o.resp.id = 0 /\ WellFormed(o.resp)
Fired(log, e) == {i \in 1..Len(log) : log[i].event = e}

\* C1: a poll whose transport response is not a success (id # 0), silent or
\* not, leaves data, last_heartbeat and last_read as they were, fires no
\* event, and returns the cached pair (last_read, data).
C1_FailedPollChangesNothing ==
    [][(IsPoll(op') /\ op'.resp.id # 0) =>
            /\ data' = data
            /\ last_heartbeat' = last_heartbeat
            /\ last_read' = last_read
            /\ fired' = <<>>
            /\ ret' = [raised |-> None, value |-> <<last_read, data>>]]_vars

\* a failed, non-silent poll made when a value is already cached
C1_Witness ==
    /\ IsPoll(op) /\ op.resp.id # 0 /\ ~op.silent
    /\ data # None /\ ret.value = <<last_read, data>>

\* C2: a non-silent successful poll fires CHANGE iff the newly parsed data
\* differs from the data stored just before the poll, and then with the
\* arguments (new data, previous data).
C2_ChangeIffDataDiffers ==
    [][(SuccessPoll(op') /\ ~op'.silent) =>
            /\ (Fired(fired', CHANGE) # {}) <=> (Some(op'.resp.data.DA) # data)
            /\ \A i \in Fired(fired', CHANGE) : fired'[i].args = <<data', data>>]_vars

\* CHANGE fired against a value stored by an earlier poll
C2_Witness ==
    /\ SuccessPoll(op) /\ ~op.silent
    /\ \E i \in Fired(fired, CHANGE) : fired[i].args[2] # None /\ fired[i].args[1] = data

\* C3: a successful non-silent poll fires HEARTBEAT exactly once, with the
\* new data, whether or not the data changed; a successful silent poll fires
\* nothing; both update data, last_heartbeat and last_read from the response.
C3_HeartbeatOncePerLoudPoll ==
    [][SuccessPoll(op') =>
            /\ data' = Some(op'.resp.data.DA)
            /\ last_heartbeat' = Some(op'.utcnow)
            /\ last_read' = Some(op'.resp.data.timestamp \div 1000)
            /\ IF op'.silent THEN fired' = <<>>
               ELSE /\ Cardinality(Fired(fired', HEARTBEAT)) = 1
                    /\ \A i \in Fired(fired', HEARTBEAT) : fired'[i].args = <<data'>>]_vars

\* a silent successful poll that stored a value and fired nothing
C3_Witness ==
    /\ SuccessPoll(op) /\ op.silent
    /\ fired = <<>> /\ data = Some(op.resp.data.DA) /\ last_read # None

\* C4: data changes only in a step that is a poll the transport marks
\* successful.
C4_DataOnlyBySuccessfulPoll ==
    [][data' # data => (IsPoll(op') /\ op'.resp.id = 0)]_vars

\* C5: a poll is atomic on the cached fields: when it ends, normally or by
\* an error, either data, last_heartbeat and last_read were all updated from
\* the response or none of them changed.
C5_PollAllOrNothing ==
    [][IsPoll(op') =>
            \/ /\ data' = data
               /\ last_heartbeat' = last_heartbeat
               /\ last_read' = last_read
            \/ /\ WellFormed(op'.resp)
               /\ data' = Some(op'.resp.data.DA)
               /\ last_heartbeat' = Some(op'.utcnow)
               /\ last_read' = Some(op'.resp.data.timestamp \div 1000)]_vars

RawState == IF "DA" \in DOMAIN last_data THEN Some(last_data.DA) ELSE None

\* C6 as stated: a Relay is Off iff the raw last-known state is "0", On iff
\* it is "1", Unknown otherwise, also when there is no raw state entry.
C6_Original ==
    cls = "Relay" =>
        /\ state = Some(FALSE) <=> RawState = Some(<<"0">>)
        /\ state = Some(TRUE) <=> RawState = Some(<<"1">>)
        /\ state = None <=> RawState \notin {Some(<<"0">>), Some(<<"1">>)}

\* C6 amended: a Relay is Off iff the raw last-known state is "0" or the
\* last-known data holds no raw state entry, On iff it is "1", and Unknown
\* in every other case.
C6_StateFromLastData ==
    cls = "Relay" =>
        /\ state = Some(FALSE) <=> RawState \in {Some(<<"0">>), None}
        /\ state = Some(TRUE) <=> RawState = Some(<<"1">>)
        /\ state = None <=> RawState \notin {Some(<<"0">>), Some(<<"1">>), None}

\* a Relay built from a description without a raw state entry
C6_Witness == cls = "Relay" /\ op.name = "__init__" /\ RawState = None /\ state = Some(FALSE)

\* C7: with the state Unknown both accessors raise and return nothing; with
\* it On or Off neither raises and exactly one returns true (is_turned_on
\* iff On, is_turned_off iff Off).
C7_AccessorsRaiseOnUnknown ==
    cls = "Relay" =>
        LET on == is_turned_on(state)
            off == is_turned_off(state)
        IN  /\ op.name = "is_turned_on" => ret = on
            /\ op.name = "is_turned_off" => ret = off
            /\ IF state = None
               THEN /\ on = [raised |-> Some("Warning"), value |-> None]
                    /\ off = [raised |-> Some("Warning"), value |-> None]
               ELSE /\ on = [raised |-> None, value |-> Some(state = Some(TRUE))]
                    /\ off = [raised |-> None, value |-> Some(state = Some(FALSE))]
                    /\ (on.value = Some(TRUE)) # (off.value = Some(TRUE))

\* is_turned_off read on a Relay whose state is Unknown
C7_Witness ==
    /\ cls = "Relay" /\ op.name = "is_turned_off" /\ state = None
    /\ ret = [raised |-> Some("Warning"), value |-> None]

\* the call ended on a description that reports a raw state
ReportsRaw(o) ==
    /\ o.name = "_change_state"
    /\ "last_data" \in DOMAIN o.new_info
    /\ "DA" \in DOMAIN o.new_info.last_data

\* C8: a turn_on/turn_off makes exactly min(k, 10) directory fetches, k the
\* index of the first fetch reporting the desired integer value: at least 1,
\* at most 10, and 10 when none matches.
C8_FetchCount ==
    ReportsRaw(op) =>
        /\ 1 <= op.gets /\ op.gets <= MaxAttempts
        /\ op.gets = IF op.firstMatch # 0 THEN op.firstMatch ELSE MaxAttempts

\* C9: when the loop of turn_on (turn_off) ends confirmed, the logical state
\* after the call is On (Off).
C9_ConfirmedGivesState ==
    (op.name = "_change_state" /\ ret.raised = None /\ op.confirmed) =>
        state = Some(op.logical_state)

\* C10: turn_on/turn_off returns normally whatever raw states the directory
\* reports, the entity rebuilt from the last fetched description.
C10_NeverRaises ==
    ReportsRaw(op) =>
        /\ ret.raised = None
        /\ last_data = op.new_info.last_data
        /\ state = RelayState(last_data)

Write(ls) == [guid |-> guid, DA |-> IF ls THEN <<"1">> ELSE <<"0">>]

\* C11: a turn_on/turn_off issues exactly one write for this guid, "1" for
\* turn_on and "0" for turn_off, before any directory fetch of the call, and
\* the verification attempts add no write.
C11_OneWriteBeforeFetches ==
    /\ op.name \in {"turn_on", "turn_off"} =>
            /\ gets = 0
            /\ puts = <<Write(op.name = "turn_on")>>
            /\ calls = <<[fn |-> "_makePUTRequest", guid |-> guid]>>
    /\ pc = "verify" => puts = <<Write(logical_state)>>
    /\ op.name = "fetch" => calls = <<[fn |-> "_makeGETRequest", guid |-> guid]>>
    /\ op.name = "_change_state" => puts = <<Write(op.logical_state)>>

\* a turn_on that used all its attempts and still wrote once
C11_Witness ==
    /\ op.name = "_change_state" /\ op.logical_state /\ op.gets = MaxAttempts
    /\ puts = <<Write(TRUE)>>

\* C12: with a non-decreasing clock, after each successful poll last_read
\* equals the hub-reported timestamp of that poll and keeps it through later
\* failed polls; last_heartbeat is the local time of the most recent
\* successful poll and never decreases over polls.
C12_TimestampsFollowPolls ==
    [][IsPoll(op') =>
            /\ SuccessPoll(op') =>
                    /\ last_read' # None /\ last_read'[1] * 1000 = op'.resp.data.timestamp
                    /\ last_heartbeat' = Some(op'.utcnow)
            /\ op'.resp.id # 0 =>
                    last_read' = last_read /\ last_heartbeat' = last_heartbeat
            /\ last_heartbeat # None =>
                    last_heartbeat' # None /\ last_heartbeat[1] <= last_heartbeat'[1]]_vars

\* C13: the guid is the same in every state, also after the Relay rebuilt
\* itself, and every transport call and write is keyed by it.
C13_GuidFixed ==
    /\ guid = "g1"
    /\ \A i \in 1..Len(calls) : calls[i].guid = guid
    /\ \A i \in 1..Len(puts) : puts[i].guid = guid

\* a Relay rebuilt from a fetched description by turn_on
C13_Witness ==
    /\ op.name = "_change_state" /\ ret.raised = None /\ op.gets > 1
    /\ type = Some("relay") /\ guid = "g1"

\* C14: turnOn writes the last colour other than black the device had, also
\* when turnOff was called while the device was already black.
C14_TurnOnRestoresColor ==
    [][(op'.name = "turnOn" /\ lastNonBlack # None) =>
            puts' = <<[guid |-> guid, DA |-> Color_hex(lastNonBlack)]>>]_vars

\* C15: for every variant of the registry asDict(for_json=True) returns a
\* record without raising, with last_heartbeat and last_read None while they
\* are None on the entity and ISO-8601 strings once a poll has set them, and
\* changes no field of the entity.
C15_JsonRecordNeverRaises ==
    [][(op'.name = "asDict" /\ op'.for_json) =>
            /\ ret'.raised = None
            /\ ret'.value.last_read =
                    IF last_read = None THEN None ELSE Some(isoformat(last_read[1]))
            /\ ret'.value.last_heartbeat =
                    IF last_heartbeat = None THEN None ELSE Some(isoformat(last_heartbeat[1]))
            /\ UNCHANGED entity]_vars

\* the reading r came from the hub's device g
ReadingOf(d, lr, g) ==
    /\ d # None => d[1].dev = g
    /\ lr # None => lr[1] = utcfromtimestamp(HubTs[g])

\* C16: under any interleaving of the polls and subscriptions of two entities
\* on one transport, a step of one entity changes no field, subscription or
\* logical state of the other, and each entity's data and last_read come only
\* from responses to requests made for its own guid.
C16_EntitiesIsolated ==
    [][/\ op'.who = "self" => other' = other
       /\ op'.who = "other" => UNCHANGED entity
       /\ ReadingOf(data', last_read', guid')
       /\ ReadingOf(other'.data, other'.last_read, other'.guid)
       /\ \A w \in Threads :
            inflight'[w] # None => inflight'[w][1].for = (IF w = "self" THEN guid' ELSE other'.guid)
      ]_vars

\* both entities have been polled and subscribed to, the second while a
\* request of the first was in flight
C16_Witness ==
    /\ other # None
    /\ data # None /\ other.data # None
    /\ data # other.data
    /\ op.name = "receive" /\ op.who = "other"
    /\ inflight["self"] # None
    /\ callbacks # other.callbacks

\* C17: pulse never leaves its loop: a non-silent poll and one sleep
\* alternate for ever, whatever the polls answer, so the loop polls again and
\* again, and a poll on which the transport succeeds fires HEARTBEAT.
C17_PulseRepeatsForever ==
    /\ [][/\ InPulse => InPulse'
          /\ pc = "pulse_poll" =>
                (pc' = "pulse_sleep" /\ op'.name = "heartbeat" /\ ~op'.silent)
          /\ pc = "pulse_sleep" => (pc' = "pulse_poll" /\ op'.name = "sleep")
          /\ (pc = "pulse_poll" /\ SuccessPoll(op')) => Fired(fired', HEARTBEAT) # {}
         ]_vars
    /\ (pc = "pulse_sleep") ~> (pc = "pulse_poll")
    /\ (pc = "pulse_poll") ~> (pc = "pulse_sleep")

\* C18: the step that ends a relay's turn_on/turn_off leaves the entity's
\* subscriptions as they were, so that a callback subscribed before the call
\* is among those a later successful non-silent poll invokes.
C18_SubscriptionsSurvive ==
    [][op'.name = "_change_state" =>
            \A e \in EventNames :
                \A i \in 1..Len(callbacks[e]) :
                    i <= Len(callbacks'[e]) /\ callbacks'[e][i] = callbacks[e][i]]_vars

\* C19: after a successful non-silent poll every callback invocation of that
\* poll saw data, last_heartbeat and last_read already holding this poll's
\* values, every subscribed callback of a fired event was invoked, and no
\* CHANGE callback ran before a HEARTBEAT callback.
C19_UpdatedBeforeCallbacks ==
    (SuccessPoll(op) /\ ~op.silent) =>
        /\ \A i \in 1..Len(invoked) :
              /\ invoked[i].seen = <<data, last_heartbeat, last_read>>
              /\ invoked[i].seen[1] = Some(op.resp.data.DA)
              /\ invoked[i].seen[2] = Some(op.utcnow)
              /\ invoked[i].seen[3] = Some(op.resp.data.timestamp \div 1000)
              /\ invoked[i].args[1] = data
        /\ \A i, j \in 1..Len(invoked) :
              (invoked[i].event = CHANGE /\ invoked[j].event = HEARTBEAT) => j < i
        /\ \A e \in EventNames :
              Fired(fired, e) # {} =>
                  Cardinality({i \in 1..Len(invoked) : invoked[i].event = e}) = Len(callbacks[e])

\* a poll that replaced an earlier reading ran a HEARTBEAT and then a CHANGE
\* callback
C19_Witness ==
    /\ SuccessPoll(op) /\ ~op.silent
    /\ Len(invoked) = 2
    /\ invoked[1].event = HEARTBEAT /\ invoked[2].event = CHANGE
    /\ invoked[2].args[2] # None
    /\ invoked[2].args[2] # data

\* C20: a poll leaves type, name, is_sensor, is_actuator, last_data and the
\* Relay's logical state (and guid, subscriptions, remembered colour) as they
\* were, whatever it stores in data; the logical state changes only in the
\* step that ends turn_on/turn_off by reconstruction.
C20_PollKeepsIdentityAndState ==
    [][/\ IsPoll(op') =>
            UNCHANGED <<guid, type, name, is_sensor, is_actuator, last_data,
                        state, callbacks, last_color>>
       /\ state' # state => op'.name = "_change_state"]_vars

\* a Relay known to be off has polled the value 1 and is still off
C20_Witness ==
    /\ cls = "Relay"
    /\ SuccessPoll(op)
    /\ data = Some(1)
    /\ state = Some(FALSE)
    /\ last_data = [DA |-> <<"0">>]

====
